---- MODULE Spec2Model ----
(***************************************************************************)
(* Order sync and pick allocation of update_orders2.py.                    *)
(*                                                                         *)
(* The script runs as one database transaction per invocation (main):      *)
(* run_order_sync upserts the live order table (orderstatus) from the      *)
(* storefront feed, archives the rows the feed no longer reports and       *)
(* deletes the stock rows of archived orders; run_pick_allocation then     *)
(* assigns free stock rows (localstock) to the open order rows, splitting  *)
(* multi-quantity rows, and falls back to the marketplace (amz), the       *)
(* secondary warehouse (ukd) or "othersupplier" when a sku has no free     *)
(* local stock.  main commits at the end and rolls back on an exception.   *)
(* The picklist CSV is written outside the transaction.                    *)
(***************************************************************************)
EXTENDS Integers, Sequences, FiniteSets, TLC

VARIABLES
    localstock,    \* stock rows as seen by the running transaction
    orderstatus,   \* live order rows as seen by the running transaction
    archive,       \* orderstatus_archive: key -> number of archived copies
    sales,         \* sales: key -> number of sales rows
    committed,     \* the four tables as of the last commit
    picklist,      \* rows appended to the picklist CSV by the current run, in order
    amzfeed,       \* sku -> SUM(amzlive) of the rows with amzlive > 0
    ukdstock,      \* sku -> SUM(stock) of the rows with stock > 0
    skusupplier,   \* sku -> supplier found through skumap/skusummary
    pc,            \* position of main
    pick_only,     \* '--picks' in sys.argv of the current run
    orders,        \* rows fetched at the top of run_pick_allocation, not yet processed
    cur,           \* the order row the local-stock loop is working on
    consulted,     \* tables read for the row processed last
    deleted_default, \* what localstock.deleted holds when an INSERT leaves it out
    runs,          \* invocations of main so far; doubles as the clock
    feed,          \* the response run_order_sync got in this run and its current_shopify_orders
    outcome,       \* how the last finished run of main ended
    existing_files, \* logs/picklist_archive: the picklist files, oldest first
    current_time,  \* the minute get_picklist_log_filename reads off the clock
    other          \* a second process running the allocation at the same time

vars == <<localstock, orderstatus, archive, sales, committed, picklist,
          amzfeed, ukdstock, skusupplier, pc, pick_only, orders, cur,
          consulted, deleted_default, runs, feed, outcome,
          existing_files, current_time, other>>

---------------------------------------------------------------------------
(* Bounds of the model *)

\* invocations of main in one behaviour
MaxRuns == 3
\* largest qty of a stock row present before the first run
MaxQty == 2
\* the random suffix is drawn from RandLo..RandHi (the code: 100..999)
RandHi == 101

\* the clock passes at most this many minute boundaries
LastMinute == 1

(* Program constants *)
RandLo == 100
HTTP_OK == 200
\* "limit": 250
PageLimit == 250
\* "if len(existing_files) >= 100"
MaxFiles == 100
\* "existing_files[:-99]"
KeptFiles == 99

NULL == "NULL"
\* SQL NULL in an integer column
NoInt == -1
FREE == <<"#FREE", 0>>
NoRow == [ordernum |-> FREE, shopifysku |-> "", qty |-> 0]
\* no feed request made (yet) in this run
NoFeed == [status_code |-> 0, current_shopify_orders |-> {}, open_upstream |-> {}]

\* order names are modelled as <<prefix, digits>>
OrderPrefix(name) == name[1]
OrderDigits(name) == name[2]

Skus == {"X", "Y"}
Locations == <<"A", "B">>
FeedNames == {<<"BC", 1>>, <<"BC", 2>>}
ManualName == <<"M", 7>>
\* the orders of the worked examples
O1 == <<"O", 1>>
O2 == <<"O", 2>>
Keys == (FeedNames \cup {ManualName, O1, O2}) \X Skus

---------------------------------------------------------------------------
(* Helpers *)

\* safe(value): "" for a missing value, else the value stripped of
\* surrounding whitespace (the feed's raw skus are listed in RawSkus)
safe(value) ==
    CASE value = NULL -> ""
      [] value = " X" -> "X"
      [] value = "Y " -> "Y"
      [] OTHER -> value

\* str.lower() on the supplier names of the model
Lower(s) == IF s = "UKD" THEN "ukd" ELSE s

Min(a, b) == IF a <= b THEN a ELSE b

LocRank(l) == CHOOSE i \in 1..Len(Locations) : Locations[i] = l

\* ORDER BY location, id
PickBefore(r, s) ==
    \/ LocRank(r.location) < LocRank(s.location)
    \/ r.location = s.location /\ r.id <= s.id

KeyOf(row) == <<row.ordernum, row.shopifysku>>

Tables == [localstock |-> localstock, orderstatus |-> orderstatus,
           archive |-> archive, sales |-> sales]

---------------------------------------------------------------------------
(* The feed *)

RawSkus == {"X", "Y", " X", ""}

Item(sku, quantity) == [sku |-> sku, quantity |-> quantity]

\* the line-item lists an order of the feed may carry
ItemLists(name) ==
    IF OrderDigits(name) = 1
    THEN {<<Item("X", 3)>>, <<Item(" X", 1), Item("Y", 2)>>, <<Item("Y", 2)>>}
    ELSE {<<Item("X", 1), Item("Y", 0)>>}

FeedOrder(name, fin, ful, cancel, items) ==
    [name |-> name, financial_status |-> fin, fulfillment_status |-> ful,
     cancel_reason |-> cancel, line_items |-> items, shipname |-> "addr"]

NoOrder == FeedOrder(FREE, "", "", NULL, <<>>)

\* what a response may hold for one order name: nothing, or the order in
\* one of its states
FeedOrdersOf(name) ==
    {NoOrder}
    \cup {FeedOrder(name, "paid", "unfulfilled", NULL, items) : items \in ItemLists(name)}
    \cup (IF OrderDigits(name) = 1
          THEN {FeedOrder(name, "partially_refunded", NULL, NULL, <<Item("X", 3)>>),
                FeedOrder(name, "paid", "unfulfilled", "customer", <<Item("X", 3)>>)}
          ELSE {FeedOrder(name, "pending", "unfulfilled", NULL, <<Item("X", 1)>>),
                FeedOrder(name, "paid", "unfulfilled", NULL, <<Item("", 1)>>)})

\* the open unfulfilled orders of FeedNames the shop may hold: at most one
\* per order name
ShopOrders ==
    {{f[n] : n \in FeedNames} \ {NoOrder} :
        f \in {g \in [FeedNames -> UNION {FeedOrdersOf(n) : n \in FeedNames}] :
                 \A n \in FeedNames : g[n] \in FeedOrdersOf(n)}}

\* the open unfulfilled orders the shop may hold beside them, none of them
\* paid: none, or one less than a page
OtherOpenOrders == {0, PageLimit - 1}

\* the one request asks for PageLimit orders: what it may return of held
\* when the shop holds others open orders more
Pages(held, others) ==
    {page \in SUBSET held :
        \E j \in 0..others :
            Cardinality(page) + j = Min(Cardinality(held) + others, PageLimit)}

\* a response: a status code and the orders of the page; held is what the
\* shop held when it answered
Responses ==
    {[status_code |-> 500, orders |-> {}, held |-> {}]}
    \cup UNION {{[status_code |-> HTTP_OK, orders |-> page, held |-> held] :
                    page \in Pages(held, others)} :
                 held \in ShopOrders, others \in OtherOpenOrders}

\* the filter of the order loop
Eligible(order) ==
    /\ order.financial_status \in {"paid", "partially_refunded"}
    /\ order.fulfillment_status \in {"unfulfilled", NULL}
    /\ order.cancel_reason = NULL

\* the (order, item index) pairs the loops of run_order_sync get to
FeedLines(resp) ==
    {<<o, i>> \in resp.orders \X (1..2) :
        /\ Eligible(o)
        /\ i <= Len(o.line_items)
        /\ safe(o.line_items[i].sku) # ""}

LineKey(l) == <<l[1].name, safe(l[1].line_items[l[2]].sku)>>

\* current_shopify_orders
CurrentShopifyOrders(resp) == {LineKey(l) : l \in FeedLines(resp)}

---------------------------------------------------------------------------
(* run_order_sync *)

Exists(rows, key) == \E r \in rows : KeyOf(r) = key

\* an orderstatus row with no allocation yet (orderdate 0: the empty string)
OrderRow(name, sku, qty, channel, ordertype, shippingname) ==
    [ordernum |-> name, shopifysku |-> sku, qty |-> qty,
     channel |-> channel, ordertype |-> ordertype, batch |-> 0,
     amz |-> 0, localstock |-> 0, ukd |-> 0, othersupplier |-> 0,
     orderdate |-> 0, last_seen |-> 0, shippingname |-> shippingname]

\* the row the INSERT of run_order_sync writes for a feed line
NewOrderRow(l) ==
    OrderRow(l[1].name, LineKey(l)[2], l[1].line_items[l[2]].quantity,
             "SHOPIFY", 1, safe(l[1].shipname))

\* the first item of its order with the line's sku: the one the INSERT is for
FirstOfKey(l, resp) ==
    \A m \in FeedLines(resp) : LineKey(m) = LineKey(l) /\ m[1] = l[1] => l[2] <= m[2]

\* faulty variant: the refresh also clears what allocation wrote
RefreshClearsAllocation(row, resp, now) ==
    [row EXCEPT !.last_seen = now, !.localstock = 0, !.orderdate = 0]

\* UPDATE orderstatus SET shipping fields, last_seen WHERE ordernum, shopifysku
Refresh(row, resp, now) ==
    LET ls == {l \in FeedLines(resp) : LineKey(l) = KeyOf(row)}
        l  == CHOOSE l \in ls : TRUE
    IN  [row EXCEPT !.shippingname = safe(l[1].shipname), !.last_seen = now]

\* orderstatus after the order loop: rows already there are refreshed, the
\* others inserted (and refreshed by a later item of the same sku)
Upserted(rows, resp, now) ==
    LET current  == CurrentShopifyOrders(resp)
        inserted == {NewOrderRow(l) : l \in {m \in FeedLines(resp) :
                        ~Exists(rows, LineKey(m)) /\ FirstOfKey(m, resp)}}
        again    == {r \in inserted :
                        Cardinality({l \in FeedLines(resp) : LineKey(l) = KeyOf(r)}) > 1}
    IN  {IF KeyOf(r) \in current THEN Refresh(r, resp, now) ELSE r : r \in rows}
        \cup {IF r \in again THEN Refresh(r, resp, now) ELSE r : r \in inserted}

\* insert_into_sales: one row per inserted order line whose sku has a groupid
SalesAfter(rows, resp) ==
    [k \in Keys |->
        IF /\ k \in CurrentShopifyOrders(resp)
           /\ ~Exists(rows, k)
           /\ skusupplier[k[2]] # "NOMAP"
        THEN sales[k] + 1 ELSE sales[k]]

\* faulty variant: every feed-origin key is archived, seen by the pull or not
OrdersToArchiveAll(rows, current) ==
    {KeyOf(r) : r \in {x \in rows : x.channel = "SHOPIFY"}}

\* orders_to_archive
OrdersToArchive(rows, current) ==
    {KeyOf(r) : r \in {x \in rows : x.channel = "SHOPIFY"}} \ current

\* faulty variant: the cleanup deletes every row that has an order
remove_all_picks_from_localstock(stock, rows) ==
    {u \in stock : u.ordernum = FREE}

\* faulty variant: the cleanup deletes nothing
remove_no_picks_from_localstock(stock, rows) == stock

\* DELETE FROM localstock WHERE ordernum LIKE 'BC%' AND ordernum NOT IN (orderstatus)
remove_done_picks_from_localstock(stock, rows) ==
    {u \in stock :
        ~ (/\ OrderPrefix(u.ordernum) = "BC"
           /\ u.ordernum \notin {r.ordernum : r \in rows})}

\* archive_old_orders: the three tables it leaves
archive_old_orders(stock, rows, arch, current) ==
    LET gone == OrdersToArchive(rows, current)
        kept == {r \in rows : KeyOf(r) \notin gone}
    IN  [orderstatus |-> kept,
         archive |-> [k \in Keys |->
                        arch[k] + Cardinality({r \in rows : KeyOf(r) = k /\ k \in gone})],
         localstock |-> IF gone # {}
                        THEN remove_done_picks_from_localstock(stock, kept)
                        ELSE stock]

\* faulty variant: the status of the response is not looked at
RunOrderSyncWhateverStatus(resp) ==
    /\ pc = "sync"
    /\ pc' = "alloc"
    /\ feed' = [status_code |-> resp.status_code,
                current_shopify_orders |-> CurrentShopifyOrders(resp),
                open_upstream |-> CurrentShopifyOrders([orders |-> resp.held])]
    /\ LET up  == Upserted(orderstatus, resp, runs)
           res == archive_old_orders(localstock, up, archive, CurrentShopifyOrders(resp))
       IN  /\ orderstatus' = res.orderstatus
           /\ archive' = res.archive
           /\ localstock' = res.localstock
           /\ sales' = SalesAfter(orderstatus, resp)
    /\ UNCHANGED <<existing_files, current_time, other, committed, picklist, amzfeed,
                   ukdstock, skusupplier, deleted_default, pick_only, orders, cur,
                   consulted, runs, outcome>>

RunOrderSync(resp) ==
    /\ pc = "sync"
    /\ pc' = "alloc"
    /\ feed' = [status_code |-> resp.status_code,
                current_shopify_orders |->
                    IF resp.status_code = HTTP_OK THEN CurrentShopifyOrders(resp) ELSE {},
                open_upstream |->
                    IF resp.status_code = HTTP_OK
                    THEN CurrentShopifyOrders([orders |-> resp.held]) ELSE {}]
    /\ IF resp.status_code # HTTP_OK
       THEN UNCHANGED <<localstock, orderstatus, archive, sales>>
       ELSE LET up  == Upserted(orderstatus, resp, runs)
                res == archive_old_orders(localstock, up, archive,
                                          CurrentShopifyOrders(resp))
            IN  /\ orderstatus' = res.orderstatus
                /\ archive' = res.archive
                /\ localstock' = res.localstock
                /\ sales' = SalesAfter(orderstatus, resp)
    /\ UNCHANGED <<existing_files, current_time, other, committed, picklist, amzfeed, ukdstock, skusupplier, deleted_default,
                   pick_only, orders, cur, consulted, runs, outcome>>

\* requests.get raises (no connection, timeout): nothing catches it in
\* run_order_sync, main rolls back and the run ends without allocation
RunOrderSyncRaises ==
    /\ pc = "sync"
    /\ localstock' = committed.localstock
    /\ orderstatus' = committed.orderstatus
    /\ archive' = committed.archive
    /\ sales' = committed.sales
    /\ pc' = "idle"
    /\ pick_only' = FALSE
    /\ feed' = NoFeed
    /\ outcome' = "rollback"
    /\ UNCHANGED <<existing_files, current_time, other, committed, picklist, amzfeed, ukdstock, skusupplier, deleted_default,
                   orders, cur, consulted, runs>>

---------------------------------------------------------------------------
(* run_pick_allocation *)

\* the WHERE clause of the scan at the top of run_pick_allocation
InScope(r) ==
    /\ r.ordertype \notin {3, 5}
    /\ r.batch # -1
    /\ r.amz = 0
    /\ r.localstock = 0
    /\ r.ukd = 0
    /\ r.othersupplier = 0

ScanRows(rows) ==
    {[ordernum |-> r.ordernum, shopifysku |-> r.shopifysku, qty |-> r.qty] :
        r \in {x \in rows : InScope(x)}}

\* SELECT COUNT(*) FROM localstock WHERE code, ordernum, deleted = 0
AlreadyAllocated(stock, sku, name) ==
    Cardinality({u \in stock : u.code = sku /\ u.ordernum = name /\ u.deleted = 0})

\* faulty variant: the candidate query without "ordernum = '#FREE'"
AvailablePicksOfAnyOrder(stock, sku) ==
    {u \in stock :
        /\ u.code = sku
        /\ u.deleted \in {0, NoInt}
        /\ u.allocated = "unallocated"}

\* the candidate query: free, not deleted, unallocated rows of the sku
AvailablePicks(stock, sku) ==
    {u \in stock :
        /\ u.code = sku
        /\ u.ordernum = FREE
        /\ u.deleted \in {0, NoInt}
        /\ u.allocated = "unallocated"}

\* available_picks[0] under ORDER BY location, id
FirstPick(stock, sku) ==
    CHOOSE u \in AvailablePicks(stock, sku) :
        \A v \in AvailablePicks(stock, sku) : PickBefore(u, v)

\* int(digits of the order name + str(random.randint(100, 999)))
FallbackId(name, r) == OrderDigits(name) * 1000 + r

\* faulty variant: the split row keeps its quantity
SplitTakeKeepsQty(stock, pick_id, name) ==
    {IF u.id = pick_id THEN [u EXCEPT !.ordernum = name] ELSE u : u \in stock}

\* UPDATE localstock SET qty = 1, ordernum = order WHERE id = pick_id
SplitTake(stock, pick_id, name) ==
    {IF u.id = pick_id THEN [u EXCEPT !.qty = 1, !.ordernum = name] ELSE u : u \in stock}

\* faulty variant: the remainder keeps the whole quantity of the row it came from
RemainderKeepsQty(pick, fallback_id) ==
    [id |-> fallback_id, code |-> pick.code, qty |-> pick.qty,
     location |-> pick.location, ordernum |-> FREE, deleted |-> deleted_default,
     allocated |-> "unallocated"]

\* the row the split INSERTs: the remainder, free, same place and sku
Remainder(pick, fallback_id) ==
    [id |-> fallback_id, code |-> pick.code, qty |-> pick.qty - 1,
     location |-> pick.location, ordernum |-> FREE, deleted |-> deleted_default,
     allocated |-> "unallocated"]

\* UPDATE localstock SET ordernum = order WHERE id = pick_id
AssignWhole(stock, pick_id, name) ==
    {IF u.id = pick_id THEN [u EXCEPT !.ordernum = name] ELSE u : u \in stock}

\* UPDATE orderstatus SET column = value WHERE ordernum, shopifysku
SetCounter(rows, key, column, value) ==
    {IF KeyOf(r) = key
     THEN (CASE column = "amz" -> [r EXCEPT !.amz = value]
             [] column = "ukd" -> [r EXCEPT !.ukd = value]
             [] column = "othersupplier" -> [r EXCEPT !.othersupplier = value])
     ELSE r : r \in rows}

\* UPDATE orderstatus SET orderdate = now, localstock = n WHERE ordernum, shopifysku
SetPicked(rows, key, now, n) ==
    {IF KeyOf(r) = key THEN [r EXCEPT !.orderdate = now, !.localstock = n] ELSE r
        : r \in rows}

\* manage_picklist_log_files: with MaxFiles files or more in the directory,
\* all but the KeptFiles files created last are removed
manage_picklist_log_files(files) ==
    IF Cardinality(files) >= MaxFiles
    THEN {f \in files : Cardinality({g \in files : g.ctime > f.ctime}) < KeptFiles}
    ELSE files

\* get_picklist_log_filename: "%Y%m%d-%H-%M-PickList.csv", one name a minute
get_picklist_log_filename(now) == now

\* log_pick_to_csv: clean the directory, then append one row to the file of
\* the current minute, with the header first when the file is new
log_pick_to_csv(files, now, run) ==
    LET kept     == manage_picklist_log_files(files)
        filename == get_picklist_log_filename(now)
    IN  IF \E f \in kept : f.name = filename
        THEN {IF f.name = filename
              THEN [f EXCEPT !.rows = @ + 1, !.runs = @ \cup {run}]
              ELSE f : f \in kept}
        ELSE kept \cup {[name |-> filename, ctime |-> now, header |-> 1,
                         rows |-> 1, runs |-> {run}]}

\* n calls of log_pick_to_csv
RECURSIVE LogPicks(_, _, _, _)
LogPicks(files, now, run, n) ==
    IF n = 0 THEN files
    ELSE LogPicks(log_pick_to_csv(files, now, run), now, run, n - 1)

\* n picklist rows (code, ordernum, location)
PickRows(row, tag, n) ==
    [i \in 1..n |-> [code |-> row.shopifysku, ordernum |-> row.ordernum, location |-> tag]]

\* faulty variant: the secondary warehouse is tried whoever the supplier is
FallbackUkdForAnySupplier(row, picks_needed) ==
    IF amzfeed[row.shopifysku] > 0
    THEN [column |-> "amz", value |-> Min(picks_needed, amzfeed[row.shopifysku]),
          tag |-> "AMZ", logged |-> Min(picks_needed, amzfeed[row.shopifysku]),
          read |-> <<"amzfeed">>]
    ELSE [column |-> "ukd", value |-> picks_needed, tag |-> "UKD", logged |-> 0,
          read |-> <<"amzfeed", "skusummary", "ukdstock">>]

\* the branch taken when the sku has no free local row: which counter is
\* written, its value, the picklist rows and the tables read
Fallback(row, picks_needed) ==
    LET sku      == row.shopifysku
        amz      == amzfeed[sku]
        supplier == skusupplier[sku]
        ukd      == ukdstock[sku]
    IN  IF amz > 0
        THEN [column |-> "amz", value |-> Min(picks_needed, amz), tag |-> "AMZ",
              logged |-> Min(picks_needed, amz), read |-> <<"amzfeed">>]
        ELSE IF supplier \notin {"NOMAP", ""}
        THEN IF Lower(supplier) = "ukd"
             THEN IF ukd > 0
                  THEN [column |-> "ukd", value |-> Min(picks_needed, ukd), tag |-> "UKD",
                        logged |-> Min(picks_needed, ukd),
                        read |-> <<"amzfeed", "skusummary", "ukdstock">>]
                  ELSE [column |-> "ukd", value |-> picks_needed, tag |-> "UKD",
                        logged |-> 0, read |-> <<"amzfeed", "skusummary", "ukdstock">>]
             ELSE [column |-> "othersupplier", value |-> picks_needed, tag |-> "",
                   logged |-> 0, read |-> <<"amzfeed", "skusummary">>]
        ELSE [column |-> "othersupplier", value |-> picks_needed, tag |-> "",
              logged |-> 0, read |-> <<"amzfeed", "skusummary">>]

FetchOrders ==
    /\ pc = "alloc"
    /\ pc' = "scan"
    /\ orders' = ScanRows(orderstatus)
    /\ UNCHANGED <<existing_files, current_time, other, localstock, orderstatus, archive, sales, committed, picklist,
                   amzfeed, ukdstock, skusupplier, deleted_default, pick_only, cur, consulted, runs, feed, outcome>>

\* "if not order_qty or order_qty <= 0: continue"
SkipInvalid(row) ==
    /\ pc = "scan"
    /\ row \in orders
    /\ row.qty <= 0
    /\ orders' = orders \ {row}
    /\ consulted' = [row |-> row, read |-> <<>>]
    /\ UNCHANGED <<existing_files, current_time, other, localstock, orderstatus, archive, sales, committed, picklist,
                   amzfeed, ukdstock, skusupplier, deleted_default, pc, pick_only, cur, runs, feed, outcome>>

\* already_allocated >= order_qty: stamp the row and go on
AlreadyFull(row) ==
    /\ pc = "scan"
    /\ row \in orders
    /\ row.qty > 0
    /\ LET already == AlreadyAllocated(localstock, row.shopifysku, row.ordernum)
       IN  /\ already >= row.qty
           /\ orderstatus' = SetPicked(orderstatus, KeyOf(row), runs, already)
    /\ orders' = orders \ {row}
    /\ consulted' = [row |-> row, read |-> <<"localstock">>]
    /\ UNCHANGED <<existing_files, current_time, other, localstock, archive, sales, committed, picklist,
                   amzfeed, ukdstock, skusupplier, deleted_default, pc, pick_only, cur, runs, feed, outcome>>

\* "if not available_picks": the marketplace / supplier branch
NoLocalStock(row) ==
    /\ pc = "scan"
    /\ row \in orders
    /\ row.qty > 0
    /\ LET already == AlreadyAllocated(localstock, row.shopifysku, row.ordernum)
           fb      == Fallback(row, row.qty - already)
       IN  /\ already < row.qty
           /\ AvailablePicks(localstock, row.shopifysku) = {}
           /\ orderstatus' = SetCounter(orderstatus, KeyOf(row), fb.column, fb.value)
           /\ picklist' = picklist \o PickRows(row, fb.tag, fb.logged)
           /\ existing_files' = LogPicks(existing_files, current_time, runs, fb.logged)
           /\ consulted' = [row |-> row, read |-> <<"localstock">> \o fb.read]
    /\ orders' = orders \ {row}
    /\ UNCHANGED <<current_time, other, localstock, archive, sales, committed,
                   amzfeed, ukdstock, skusupplier, deleted_default, pc, pick_only, cur, runs, feed, outcome>>

\* free rows exist: enter the while loop with picks_allocated = 0
StartPicking(row) ==
    /\ pc = "scan"
    /\ row \in orders
    /\ row.qty > 0
    /\ LET already == AlreadyAllocated(localstock, row.shopifysku, row.ordernum)
       IN  /\ already < row.qty
           /\ AvailablePicks(localstock, row.shopifysku) # {}
           /\ cur' = [row |-> row, already_allocated |-> already,
                      picks_needed |-> row.qty - already, picks_allocated |-> 0]
    /\ pc' = "loop"
    /\ consulted' = [row |-> row, read |-> <<"localstock">>]
    /\ UNCHANGED <<existing_files, current_time, other, localstock, orderstatus, archive, sales, committed, picklist,
                   amzfeed, ukdstock, skusupplier, deleted_default, pick_only, orders, runs, feed, outcome>>

NotPicking ==
    [row |-> NoRow, already_allocated |-> 0, picks_needed |-> 0, picks_allocated |-> 0]

LoopGoesOn ==
    /\ pc = "loop"
    /\ cur.picks_allocated < cur.picks_needed
    /\ AvailablePicks(localstock, cur.row.shopifysku) # {}

LogLocalPick(pick) ==
    /\ picklist' = picklist \o PickRows(cur.row, pick.location, 1)
    /\ existing_files' = log_pick_to_csv(existing_files, current_time, runs)

\* pick_qty > 1 and the INSERT of the remainder succeeds
PickSplit(r) ==
    /\ LoopGoesOn
    /\ LET pick == FirstPick(localstock, cur.row.shopifysku)
           fid  == FallbackId(cur.row.ordernum, r)
       IN  /\ pick.qty > 1
           /\ \A u \in localstock : u.id # fid
           /\ localstock' = SplitTake(localstock, pick.id, cur.row.ordernum)
                              \cup {Remainder(pick, fid)}
           /\ LogLocalPick(pick)
    /\ cur' = [cur EXCEPT !.picks_allocated = @ + 1]
    /\ UNCHANGED <<current_time, other, orderstatus, archive, sales, committed, amzfeed, ukdstock,
                   skusupplier, deleted_default, pc, pick_only, orders, consulted, runs, feed, outcome>>

\* pick_qty > 1 and the INSERT hits an id already in the table: the error
\* leaves run_pick_allocation, main rolls the transaction back
PickSplitCollides(r) ==
    /\ LoopGoesOn
    /\ LET pick == FirstPick(localstock, cur.row.shopifysku)
           fid  == FallbackId(cur.row.ordernum, r)
       IN  /\ pick.qty > 1
           /\ \E u \in localstock : u.id = fid
    /\ localstock' = committed.localstock
    /\ orderstatus' = committed.orderstatus
    /\ archive' = committed.archive
    /\ sales' = committed.sales
    /\ pc' = "idle"
    /\ orders' = {}
    /\ cur' = NotPicking
    /\ pick_only' = FALSE
    /\ consulted' = [row |-> NoRow, read |-> <<>>]
    /\ feed' = NoFeed
    /\ outcome' = "rollback"
    /\ UNCHANGED <<existing_files, current_time, other, committed, picklist, amzfeed, ukdstock, skusupplier, deleted_default,
                   runs>>

\* pick_qty <= 1: the whole row goes to the order
PickWhole ==
    /\ LoopGoesOn
    /\ LET pick == FirstPick(localstock, cur.row.shopifysku)
       IN  /\ pick.qty <= 1
           /\ localstock' = AssignWhole(localstock, pick.id, cur.row.ordernum)
           /\ LogLocalPick(pick)
    /\ cur' = [cur EXCEPT !.picks_allocated = @ + 1]
    /\ UNCHANGED <<current_time, other, orderstatus, archive, sales, committed, amzfeed, ukdstock,
                   skusupplier, deleted_default, pc, pick_only, orders, consulted, runs, feed, outcome>>

\* the loop ends (enough picks, or "break" on no more stock): write the counters
FinishRow ==
    /\ pc = "loop"
    /\ ~LoopGoesOn
    /\ orderstatus' =
         IF cur.picks_allocated > 0
         THEN SetPicked(orderstatus, KeyOf(cur.row), runs,
                        cur.already_allocated + cur.picks_allocated)
         ELSE orderstatus
    /\ orders' = orders \ {cur.row}
    /\ cur' = NotPicking
    /\ pc' = "scan"
    /\ UNCHANGED <<existing_files, current_time, other, localstock, archive, sales, committed, picklist, amzfeed,
                   ukdstock, skusupplier, deleted_default, pick_only, consulted, runs, feed, outcome>>

---------------------------------------------------------------------------
(* main *)

\* faulty variant: main runs the order sync whatever the flag says
MainAlwaysSyncs(picks) ==
    /\ pc = "idle"
    /\ ~other.writing
    /\ runs < MaxRuns
    /\ runs' = runs + 1
    /\ pick_only' = picks
    /\ pc' = "sync"
    /\ picklist' = <<>>
    /\ UNCHANGED <<existing_files, current_time, other, localstock, orderstatus, archive, sales, committed,
                   amzfeed, ukdstock, skusupplier, deleted_default, orders, cur, consulted, feed, outcome>>

\* (a run that would wait for the row locks of the second process is
\* started when they are released)
Main(picks) ==
    /\ pc = "idle"
    /\ ~other.writing
    /\ runs < MaxRuns
    /\ runs' = runs + 1
    /\ pick_only' = picks
    /\ pc' = IF picks THEN "alloc" ELSE "sync"
    /\ picklist' = <<>>
    /\ UNCHANGED <<existing_files, current_time, other, localstock, orderstatus, archive, sales, committed,
                   amzfeed, ukdstock, skusupplier, deleted_default, orders, cur, consulted, feed, outcome>>

\* conn.commit(); nothing of the run is left in the process
Commit ==
    /\ pc = "scan"
    /\ orders = {}
    /\ committed' = Tables
    /\ pc' = "idle"
    /\ pick_only' = FALSE
    /\ consulted' = [row |-> NoRow, read |-> <<>>]
    /\ feed' = NoFeed
    /\ outcome' = "commit"
    /\ UNCHANGED <<existing_files, current_time, other, localstock, orderstatus, archive, sales, picklist, amzfeed,
                   ukdstock, skusupplier, deleted_default, orders, cur, runs>>

Suffixes == RandLo..RandHi

Next ==
    \/ \E picks \in BOOLEAN : Main(picks)
    \/ \E resp \in Responses : RunOrderSync(resp)
    \/ RunOrderSyncRaises
    \/ FetchOrders
    \/ \E row \in orders : SkipInvalid(row)
    \/ \E row \in orders : AlreadyFull(row)
    \/ \E row \in orders : NoLocalStock(row)
    \/ \E row \in orders : StartPicking(row)
    \/ \E r \in Suffixes : PickSplit(r)
    \/ \E r \in Suffixes : PickSplitCollides(r)
    \/ PickWhole
    \/ FinishRow
    \/ Commit

---------------------------------------------------------------------------
(* The state before the first run *)

StockRow(id, sku, qty, loc) ==
    [id |-> id, code |-> sku, qty |-> qty, location |-> loc, ordernum |-> FREE,
     deleted |-> 0, allocated |-> "unallocated"]

\* stock tables for the allocation runs: row 1 of sku X alone, with a full
\* row 2, or already picked for order BC1 beside a free row 2
InitialStock ==
    {{StockRow(1, "X", q, l)} : q \in 0..MaxQty, l \in {"A", "B"}}
    \cup {{StockRow(1, "X", q, l), StockRow(2, "X", MaxQty, "A")} :
            q \in 0..MaxQty, l \in {"A", "B"}}
    \cup {{[StockRow(1, "X", 1, "A") EXCEPT !.ordernum = <<"BC", 1>>],
           StockRow(2, "X", MaxQty, "B")}}

\* an order row that did not come from the feed
ManualRow == OrderRow(ManualName, "X", 1, "MANUAL", 1, "addr")

\* no stock row read
NoPick == StockRow(0, "", 0, "")

\* the second process has not started
OtherOff ==
    [pc |-> "off", orders |-> {}, row |-> NoRow, pick |-> NoPick, already |-> 0,
     started |-> [runs |-> 0, idle |-> TRUE], overlap |-> FALSE, writing |-> FALSE,
     total |-> [k \in Skus |-> 0], picklist |-> <<>>, outcome |-> "none"]

\* what does not depend on the specification
InitRun ==
    /\ current_time = 0
    /\ other = OtherOff
    /\ archive = [k \in Keys |-> 0]
    /\ sales = [k \in Keys |-> 0]
    /\ committed = Tables
    /\ picklist = <<>>
    /\ deleted_default \in {0, NoInt}
    /\ pc = "idle"
    /\ pick_only = FALSE
    /\ orders = {}
    /\ cur = NotPicking
    /\ consulted = [row |-> NoRow, read |-> <<>>]
    /\ runs = 0
    /\ feed = NoFeed
    /\ outcome = "none"

\* full runs from an order table the feed has not filled yet; stock row
\* 1100 has the id a split for order BC1 would draw first
Init ==
    /\ localstock = {StockRow(1, "X", MaxQty, "B"),
                     StockRow(FallbackId(<<"BC", 1>>, RandLo), "X", 1, "A")}
    /\ orderstatus \in {{}, {ManualRow}}
    /\ amzfeed = [k \in Skus |-> IF k = "Y" THEN 1 ELSE 0]
    /\ ukdstock = [k \in Skus |-> 2]
    /\ skusupplier = [k \in Skus |-> IF k = "Y" THEN "NOMAP" ELSE "UKD"]
    /\ existing_files = {}
    /\ InitRun

Spec == Init /\ [][Next]_vars

\* the order rows an allocation-only run may find, none allocated yet
OpenRows ==
    {OrderRow(<<"BC", 1>>, "X", q, "SHOPIFY", 1, "addr") : q \in 1..3}
    \cup {OrderRow(<<"BC", 1>>, "Y", 2, "SHOPIFY", 1, "addr"),
          OrderRow(<<"BC", 2>>, "X", 1, "SHOPIFY", 1, "addr"),
          OrderRow(<<"BC", 2>>, "X", 0, "SHOPIFY", 1, "addr"),
          OrderRow(<<"BC", 2>>, "Y", 2, "SHOPIFY", 1, "addr")}

\* one or two of them, of different keys
InitialOrders ==
    {s \in SUBSET OpenRows :
        /\ Cardinality(s) \in 1..2
        /\ \A a, b \in s : KeyOf(a) = KeyOf(b) => a = b}

\* the marketplace and supplier tables, the same for every sku
Externals ==
    [amz : 0..1, supplier : {"UKD", "ACME"}, ukd : {0, 2}]
    \cup [amz : {0}, supplier : {"", "NOMAP"}, ukd : {0}]

\* Example A: O1 needs 3 of X; free rows 1 (qty 2 at A) and 2 (qty 5 at B);
\* both fallback sources hold stock
ExampleA ==
    /\ localstock = {StockRow(1, "X", 2, "A"), StockRow(2, "X", 5, "B")}
    /\ orderstatus = {OrderRow(O1, "X", 3, "SHOPIFY", 1, "addr")}
    /\ amzfeed = [k \in Skus |-> 1]
    /\ ukdstock = [k \in Skus |-> 5]
    /\ skusupplier = [k \in Skus |-> "UKD"]

\* Example B: O2 needs 2 of Y, no local stock of Y, marketplace 1, supplier
\* ukd with 5 in stock
ExampleB ==
    /\ localstock = {StockRow(1, "X", 1, "A")}
    /\ orderstatus = {OrderRow(O2, "Y", 2, "SHOPIFY", 1, "addr")}
    /\ amzfeed = [k \in Skus |-> 1]
    /\ ukdstock = [k \in Skus |-> 5]
    /\ skusupplier = [k \in Skus |-> "UKD"]

\* allocation-only runs (--picks) over open order rows
InitPicks ==
    /\ \/ /\ localstock \in InitialStock
          /\ orderstatus \in InitialOrders
          /\ \E e \in Externals :
                /\ amzfeed = [k \in Skus |-> e.amz]
                /\ ukdstock = [k \in Skus |-> e.ukd]
                /\ skusupplier = [k \in Skus |-> e.supplier]
       \/ ExampleA
       \/ ExampleB
    /\ existing_files = {}
    /\ InitRun

NextPicks ==
    \/ Main(TRUE)
    \/ FetchOrders
    \/ \E row \in orders : SkipInvalid(row)
    \/ \E row \in orders : AlreadyFull(row)
    \/ \E row \in orders : NoLocalStock(row)
    \/ \E row \in orders : StartPicking(row)
    \/ \E r \in Suffixes : PickSplit(r)
    \/ \E r \in Suffixes : PickSplitCollides(r)
    \/ PickWhole
    \/ FinishRow
    \/ Commit

SpecPicks == InitPicks /\ [][NextPicks]_vars

---------------------------------------------------------------------------
(* A run that is terminated *)

\* faulty variant: every statement is committed as it is executed
PersistedAutocommit(tables) == tables

\* what the database keeps when the process ends with the transaction open
\* and holding tables: main commits once, after the last line, so nothing
Persisted(tables) == committed

\* the process ends; the next run starts from what the database kept
Terminated(tables, how) ==
    /\ committed' = Persisted(tables)
    /\ localstock' = Persisted(tables).localstock
    /\ orderstatus' = Persisted(tables).orderstatus
    /\ archive' = Persisted(tables).archive
    /\ sales' = Persisted(tables).sales
    /\ pc' = "idle"
    /\ orders' = {}
    /\ cur' = NotPicking
    /\ pick_only' = FALSE
    /\ consulted' = [row |-> NoRow, read |-> <<>>]
    /\ feed' = NoFeed
    /\ outcome' = how
    /\ UNCHANGED <<existing_files, current_time, other, picklist, amzfeed, ukdstock, skusupplier, deleted_default, runs>>

\* the process is killed between two statements of a run
Terminate ==
    /\ pc # "idle"
    /\ Terminated(Tables, "killed")

\* the process is killed inside a split: the UPDATE that shrinks the row was
\* executed, the INSERT of the remainder was not
TerminateInSplit ==
    /\ LoopGoesOn
    /\ LET pick == FirstPick(localstock, cur.row.shopifysku)
       IN  /\ pick.qty > 1
           /\ Terminated([Tables EXCEPT
                            !.localstock = SplitTake(localstock, pick.id, cur.row.ordernum)],
                         "killed in split")

NextKill ==
    \/ NextPicks
    \/ Terminate
    \/ TerminateInSplit

\* allocation-only runs, any of which may be killed
SpecKill == InitPicks /\ [][NextKill]_vars

---------------------------------------------------------------------------
(* Quantities *)

RECURSIVE SumQty(_)
SumQty(rows) ==
    IF rows = {} THEN 0
    ELSE LET u == CHOOSE x \in rows : TRUE IN u.qty + SumQty(rows \ {u})

\* total quantity of the sku over the rows not marked deleted
TotalQty(stock, sku) == SumQty({u \in stock : u.code = sku /\ u.deleted # 1})

Ids(stock) == {u.id : u \in stock}

---------------------------------------------------------------------------
(* Two processes allocating at the same time *)

\* The database runs the transactions READ COMMITTED (the server default;
\* the script sets no isolation level): a SELECT of the second process sees
\* what is committed plus its own writes, and its UPDATE of a row waits for
\* the first process to end its transaction, then applies to the row as
\* committed.  The second process is followed on lines that need one pick;
\* its first line has free stock, it reads at any time and it writes while
\* the first process is between two runs.

\* the run number the second process puts on its picklist rows
OtherRun == MaxRuns + 1

\* faulty variant: the second process does not see its own writes
ViewCommittedOnly == committed

\* what the statements of the second process see
View == IF other.writing THEN Tables ELSE committed

\* the scan (for the first line), already_allocated and the candidate query
OtherReads(row) ==
    /\ other.pc \in {"off", "scan"}
    /\ other.writing => pc = "idle"
    /\ LET stock   == View.localstock
           fetched == IF other.pc = "off" THEN ScanRows(View.orderstatus) ELSE other.orders
           already == AlreadyAllocated(stock, row.shopifysku, row.ordernum)
       IN  /\ row \in fetched
           /\ row.qty > 0
           /\ row.qty - already = 1
           /\ AvailablePicks(stock, row.shopifysku) # {}
           /\ other' = [other EXCEPT
                  !.pc = "picked",
                  !.orders = fetched \ {row},
                  !.row = row,
                  !.pick = FirstPick(stock, row.shopifysku),
                  !.already = already,
                  !.started = IF other.pc = "off"
                              THEN [runs |-> runs, idle |-> pc = "idle"] ELSE @,
                  !.total = IF other.pc = "off"
                            THEN [k \in Skus |-> TotalQty(stock, k)]
                            ELSE @]
    /\ UNCHANGED <<localstock, orderstatus, archive, sales, committed, picklist,
                   amzfeed, ukdstock, skusupplier, pc, pick_only, orders, cur,
                   consulted, deleted_default, runs, feed, outcome, existing_files,
                   current_time>>

\* the UPDATE (and, for pick_qty > 1, the INSERT of the remainder) of the row
\* read before, the picklist row and the counters of the line
OtherWrites(r) ==
    /\ other.pc = "picked"
    /\ pc = "idle"
    /\ LET pick == other.pick
           name == other.row.ordernum
           fid  == FallbackId(name, r)
       IN  /\ IF pick.qty > 1
              THEN /\ \A u \in localstock : u.id # fid
                   /\ localstock' = SplitTake(localstock, pick.id, name)
                                      \cup {Remainder(pick, fid)}
              ELSE /\ r = RandLo
                   /\ localstock' = AssignWhole(localstock, pick.id, name)
           /\ other' = [other EXCEPT
                  !.pc = "scan",
                  !.writing = TRUE,
                  !.overlap = @ \/ ~(other.started.idle /\ other.started.runs = runs),
                  !.picklist = @ \o PickRows(other.row, pick.location, 1)]
    /\ orderstatus' = SetPicked(orderstatus, KeyOf(other.row), runs, other.already + 1)
    /\ existing_files' = log_pick_to_csv(existing_files, current_time, OtherRun)
    /\ UNCHANGED <<archive, sales, committed, picklist, amzfeed, ukdstock, skusupplier,
                   pc, pick_only, orders, cur, consulted, deleted_default, runs, feed,
                   outcome, current_time>>

\* the INSERT of the remainder hits an id already in the table: the second
\* process rolls back
OtherWriteCollides(r) ==
    /\ other.pc = "picked"
    /\ pc = "idle"
    /\ other.pick.qty > 1
    /\ \E u \in localstock : u.id = FallbackId(other.row.ordernum, r)
    /\ localstock' = committed.localstock
    /\ orderstatus' = committed.orderstatus
    /\ other' = [other EXCEPT !.pc = "done", !.writing = FALSE, !.outcome = "rollback",
                              !.overlap = @ \/ ~(other.started.idle /\ other.started.runs = runs)]
    /\ UNCHANGED <<archive, sales, committed, picklist, amzfeed, ukdstock, skusupplier,
                   pc, pick_only, orders, cur, consulted, deleted_default, runs, feed,
                   outcome, existing_files, current_time>>

\* "if not order_qty or order_qty <= 0: continue"
OtherSkipInvalid(row) ==
    /\ other.pc = "scan"
    /\ row \in other.orders
    /\ row.qty <= 0
    /\ other' = [other EXCEPT !.orders = @ \ {row}]
    /\ UNCHANGED <<localstock, orderstatus, archive, sales, committed, picklist,
                   amzfeed, ukdstock, skusupplier, pc, pick_only, orders, cur,
                   consulted, deleted_default, runs, feed, outcome, existing_files,
                   current_time>>

\* already_allocated >= order_qty
OtherAlreadyFull(row) ==
    /\ other.pc = "scan"
    /\ pc = "idle"
    /\ row \in other.orders
    /\ row.qty > 0
    /\ LET already == AlreadyAllocated(localstock, row.shopifysku, row.ordernum)
       IN  /\ already >= row.qty
           /\ orderstatus' = SetPicked(orderstatus, KeyOf(row), runs, already)
    /\ other' = [other EXCEPT !.orders = @ \ {row}]
    /\ UNCHANGED <<localstock, archive, sales, committed, picklist,
                   amzfeed, ukdstock, skusupplier, pc, pick_only, orders, cur,
                   consulted, deleted_default, runs, feed, outcome, existing_files,
                   current_time>>

\* "if not available_picks"
OtherNoLocalStock(row) ==
    /\ other.pc = "scan"
    /\ pc = "idle"
    /\ row \in other.orders
    /\ row.qty > 0
    /\ LET already == AlreadyAllocated(localstock, row.shopifysku, row.ordernum)
           fb      == Fallback(row, row.qty - already)
       IN  /\ already < row.qty
           /\ AvailablePicks(localstock, row.shopifysku) = {}
           /\ orderstatus' = SetCounter(orderstatus, KeyOf(row), fb.column, fb.value)
           /\ existing_files' = LogPicks(existing_files, current_time, OtherRun, fb.logged)
           /\ other' = [other EXCEPT !.orders = @ \ {row},
                                     !.picklist = @ \o PickRows(row, fb.tag, fb.logged)]
    /\ UNCHANGED <<localstock, archive, sales, committed, picklist,
                   amzfeed, ukdstock, skusupplier, pc, pick_only, orders, cur,
                   consulted, deleted_default, runs, feed, outcome, current_time>>

\* conn.commit() of the second process
OtherCommit ==
    /\ other.pc = "scan"
    /\ pc = "idle"
    /\ other.orders = {}
    /\ committed' = Tables
    /\ other' = [other EXCEPT !.pc = "done", !.writing = FALSE, !.outcome = "commit"]
    /\ UNCHANGED <<localstock, orderstatus, archive, sales, picklist,
                   amzfeed, ukdstock, skusupplier, pc, pick_only, orders, cur,
                   consulted, deleted_default, runs, feed, outcome, existing_files,
                   current_time>>

\* two order lines of one unit of X each, with or without an empty line of
\* Y; the stock is one row of X, two single-unit rows, a row picked for
\* BC1 beside a free one, or the stock of Init; no fallback source
InitRace ==
    /\ localstock \in {{StockRow(1, "X", q, "A")} : q \in 1..MaxQty}
                        \cup {{StockRow(1, "X", 1, "A"), StockRow(2, "X", 1, "B")},
                              {[StockRow(1, "X", 1, "A") EXCEPT !.ordernum = <<"BC", 1>>],
                               StockRow(2, "X", MaxQty, "B")},
                              {StockRow(1, "X", MaxQty, "B"),
                               StockRow(FallbackId(<<"BC", 1>>, RandLo), "X", 1, "A")}}
    /\ orderstatus \in
         {{OrderRow(<<"BC", 1>>, "X", 1, "SHOPIFY", 1, "addr"),
           OrderRow(<<"BC", 2>>, "X", 1, "SHOPIFY", 1, "addr")} \cup more :
             more \in {{}, {OrderRow(<<"BC", 2>>, "Y", 0, "SHOPIFY", 1, "addr")}}}
    /\ amzfeed = [k \in Skus |-> 0]
    /\ ukdstock = [k \in Skus |-> 0]
    /\ skusupplier = [k \in Skus |-> "ACME"]
    /\ existing_files = {}
    /\ InitRun

NextRace ==
    \/ NextPicks
    \/ \E row \in ScanRows(committed.orderstatus) \cup other.orders : OtherReads(row)
    \/ \E r \in Suffixes : OtherWrites(r)
    \/ \E r \in Suffixes : OtherWriteCollides(r)
    \/ \E row \in other.orders : OtherSkipInvalid(row)
    \/ \E row \in other.orders : OtherAlreadyFull(row)
    \/ \E row \in other.orders : OtherNoLocalStock(row)
    \/ OtherCommit

SpecRace == InitRace /\ [][NextRace]_vars

---------------------------------------------------------------------------
(* The picklist directory over the minutes *)

\* the picklist files of n earlier minutes, one run and one row each
OldFiles(n) ==
    {[name |-> 0 - m, ctime |-> 0 - m, header |-> 1, rows |-> 1, runs |-> {0 - m}] : m \in 1..n}

\* the clock reaches the next minute
Tick ==
    /\ current_time < LastMinute
    /\ current_time' = current_time + 1
    /\ UNCHANGED <<localstock, orderstatus, archive, sales, committed, picklist,
                   amzfeed, ukdstock, skusupplier, pc, pick_only, orders, cur,
                   consulted, deleted_default, runs, feed, outcome, existing_files, other>>

\* allocation-only runs with the directory two short of full, one short of
\* full, or full
InitAudit ==
    /\ localstock \in InitialStock
    /\ orderstatus \in InitialOrders
    /\ amzfeed = [k \in Skus |-> 1]
    /\ ukdstock = [k \in Skus |-> 0]
    /\ skusupplier = [k \in Skus |-> "NOMAP"]
    /\ existing_files \in {OldFiles(MaxFiles - 2), OldFiles(MaxFiles - 1), OldFiles(MaxFiles)}
    /\ InitRun

NextAudit ==
    \/ NextPicks
    \/ Tick

SpecAudit == InitAudit /\ [][NextAudit]_vars

---------------------------------------------------------------------------
(* Properties *)

\* a step that splits a row: the table gains a row
IsSplit(before, after) == Cardinality(after) > Cardinality(before)

\* C1: no step of an allocation-only run changes the total quantity of any
\* sku over the non-deleted stock rows, and a step that adds a row replaces
\* one row of quantity N > 1 by that row with quantity 1 plus one new row,
\* of an id not in the table, with quantity N - 1.
C1_Conservation ==
    [][/\ \A sku \in Skus : TotalQty(localstock', sku) = TotalQty(localstock, sku)
       /\ IsSplit(localstock, localstock') =>
            \E u \in localstock :
                /\ u.qty > 1
                /\ \E n \in localstock' :
                    /\ n.id \notin Ids(localstock)
                    /\ n.qty = u.qty - 1
                    /\ n.code = u.code
                    /\ localstock' =
                         (localstock \ {u}) \cup {[u EXCEPT !.qty = 1, !.ordernum = cur.row.ordernum], n}
      ]_vars

\* C1 witness: a split has happened in the running transaction: a row the
\* last commit holds with quantity N > 1 now has quantity 1 and an order,
\* and a free row of a new id carries N - 1
C1_Witness ==
    \E n \in localstock, u \in localstock, c \in committed.localstock :
        /\ n.id \notin Ids(committed.localstock)
        /\ n.ordernum = FREE
        /\ c.id = u.id
        /\ c.qty > 1
        /\ u.qty = 1
        /\ u.ordernum # FREE
        /\ n.qty = c.qty - 1

---------------------------------------------------------------------------
\* the step deletes the stock row in the cleanup of a sync that archived a
\* key: its order has the feed's prefix and no live row is left of it
DeletedByCleanup(u) ==
    /\ pc = "sync"
    /\ u.id \notin Ids(localstock')
    /\ OrderPrefix(u.ordernum) = "BC"
    /\ \A r \in orderstatus' : r.ordernum # u.ordernum
    /\ \E k \in Keys : archive'[k] > archive[k]

\* the step is the rollback of a run; the row got its order in that run
UndoneByRollback(u) ==
    /\ outcome' = "rollback"
    /\ localstock' = committed.localstock
    /\ u \notin committed.localstock

\* C2: every stock id belongs to one row, so to one order; in every step a
\* row that has an order keeps that order, unless the cleanup of a sync
\* deletes it or the run that gave it the order is rolled back; and from one
\* commit to the next a committed row that has an order keeps it or its
\* order was archived.
C2_NoDoubleAllocation ==
    [][/\ \A u, v \in localstock' : u.id = v.id => u = v
       /\ \A u \in localstock :
            u.ordernum # FREE =>
                \/ \E v \in localstock' : v.id = u.id /\ v.ordernum = u.ordernum
                \/ DeletedByCleanup(u)
                \/ UndoneByRollback(u)
       /\ \A u \in committed.localstock :
            u.ordernum # FREE =>
                \/ \E v \in committed.localstock' :
                        v.id = u.id /\ v.ordernum = u.ordernum
                \/ /\ OrderPrefix(u.ordernum) = "BC"
                   /\ \A r \in committed.orderstatus' : r.ordernum # u.ordernum
                   /\ \E k \in Keys : committed.archive'[k] > committed.archive[k]
      ]_vars

\* C2 witness: after a second committed run two rows of the stock table are
\* held by two different orders
C2_Witness ==
    /\ runs >= 2
    /\ outcome = "commit"
    /\ pc = "idle"
    /\ \E u, v \in committed.localstock :
        /\ u.ordernum # FREE
        /\ v.ordernum # FREE
        /\ u.ordernum # v.ordernum

---------------------------------------------------------------------------
\* the loop is about to split the first candidate row
AboutToSplit ==
    /\ LoopGoesOn
    /\ FirstPick(localstock, cur.row.shopifysku).qty > 1

\* C3 (as the claim states it): whenever a row is about to be split, every
\* id the draw can give the remainder differs from the id of every row of
\* the stock table, so no split fails on its INSERT.
C3_RemainderIdFresh ==
    AboutToSplit =>
        \A r \in Suffixes : FallbackId(cur.row.ordernum, r) \notin Ids(localstock)

---------------------------------------------------------------------------
\* the order rows without their timestamps
Counters(rows) ==
    {[ordernum |-> r.ordernum, shopifysku |-> r.shopifysku, qty |-> r.qty,
      amz |-> r.amz, localstock |-> r.localstock, ukd |-> r.ukd,
      othersupplier |-> r.othersupplier] : r \in rows}

\* a step that changes neither a stock row nor a counter nor the picklist
NoOp ==
    /\ localstock' = localstock
    /\ Counters(orderstatus') = Counters(orderstatus)
    /\ picklist' = picklist

\* C4 (as the claim states it): no step of an allocation run that follows
\* another allocation run changes a stock row or an order counter or adds a
\* picklist row.
C4_Idempotent ==
    [][(runs >= 2 /\ pc # "idle") => NoOp]_vars

\* the same for the runs that follow a run that committed
IdempotentAfterCommit ==
    [][(runs >= 2 /\ pc # "idle" /\ outcome = "commit") => NoOp]_vars

---------------------------------------------------------------------------
\* the order row the scan has just dealt with
JustProcessed(r) ==
    /\ pc = "scan"
    /\ consulted.row.ordernum = r.ordernum
    /\ consulted.row.shopifysku = r.shopifysku
    /\ r.qty > 0

\* stock rows held by the order row
Held(r) ==
    Cardinality({u \in localstock : u.code = r.shopifysku /\ u.ordernum = r.ordernum})

\* C5 (as the claim states it): for a row just processed, what local stock
\* left unmet has gone to the marketplace if the marketplace has stock, and
\* what the marketplace left unmet has gone to the secondary warehouse if it
\* is the sku's supplier and has stock.
C5_FallbackOrdering ==
    \A r \in orderstatus :
        JustProcessed(r) =>
            /\ (r.qty - Held(r) > 0 /\ amzfeed[r.shopifysku] > 0) => r.amz > 0
            /\ (/\ r.qty - Held(r) - r.amz > 0
                /\ Lower(skusupplier[r.shopifysku]) = "ukd"
                /\ ukdstock[r.shopifysku] > 0) => r.ukd > 0

---------------------------------------------------------------------------
\* the sync step of a run whose request succeeded
SuccessfulPull ==
    /\ pc = "sync"
    /\ pc' = "alloc"
    /\ feed'.status_code = HTTP_OK

\* C6: in a pull that succeeded, a key the pull reports (live before the
\* pull or inserted by it) is live after the pull and gets no archive copy; a
\* live key of channel SHOPIFY the pull does not report gets exactly one
\* archive copy and is no longer live after the pull.
C6_ArchivalCorrectness ==
    [][SuccessfulPull =>
        /\ \A k \in feed'.current_shopify_orders :
            /\ Exists(orderstatus', k)
            /\ archive'[k] = archive[k]
        /\ \A r \in orderstatus :
            (r.channel = "SHOPIFY" /\ KeyOf(r) \notin feed'.current_shopify_orders) =>
                /\ ~Exists(orderstatus', KeyOf(r))
                /\ archive'[KeyOf(r)] = archive[KeyOf(r)] + 1
      ]_vars

\* C6 witness: a pull has just archived one committed key and kept another
C6_Witness ==
    /\ pc = "alloc"
    /\ feed.status_code = HTTP_OK
    /\ \E k \in Keys, j \in Keys :
        /\ Exists(committed.orderstatus, k)
        /\ k \notin feed.current_shopify_orders
        /\ ~Exists(orderstatus, k)
        /\ archive[k] = committed.archive[k] + 1
        /\ Exists(committed.orderstatus, j)
        /\ j \in feed.current_shopify_orders
        /\ Exists(orderstatus, j)
        /\ archive[j] = committed.archive[j]

---------------------------------------------------------------------------
\* the order row of Example A once allocation has dealt with it
O1Done(r) == r.ordernum = O1 /\ ~InScope(r)

\* a stock row of sku X
XRow(id, qty, loc, name, del) ==
    [id |-> id, code |-> "X", qty |-> qty, location |-> loc, ordernum |-> name,
     deleted |-> del, allocated |-> "unallocated"]

---------------------------------------------------------------------------
\* C8 (as the claim states it): once O2's row of Example B is processed its
\* counters are amz = 1, ukd = 1, othersupplier = 0.
C8_ExampleB ==
    \A r \in orderstatus :
        (r.ordernum = O2 /\ ~InScope(r)) =>
            /\ r.amz = 1
            /\ r.ukd = 1
            /\ r.othersupplier = 0

---------------------------------------------------------------------------
\* the successful pull of the current run saw no line of the order
AbsentFromPull(name) ==
    /\ feed.status_code = HTTP_OK
    /\ \A k \in feed.current_shopify_orders : k[1] # name

\* the rows of the order as of the last commit
CommittedLines(name) ==
    {r \in committed.orderstatus : r.ordernum = name /\ r.channel = "SHOPIFY"}

---------------------------------------------------------------------------
\* C10 (as the claim states it): the four counters of a processed row add up
\* to its quantity.
C10_CountersAddUp ==
    \A r \in orderstatus :
        (~InScope(r) /\ r.qty > 0) =>
            r.localstock + r.amz + r.ukd + r.othersupplier = r.qty

---------------------------------------------------------------------------
\* the step in which a write of the running allocation fails
WriteFails ==
    /\ pc = "loop"
    /\ outcome' = "rollback"

\* C11 (as the claim states it): when a write fails while a line is being
\* processed, the run goes on with the remaining lines, and the order rows
\* and the stock rows of the lines processed before keep what the run wrote.
C11_FailureIsolation ==
    [][WriteFails =>
        /\ pc' = "scan"
        /\ orders' = orders \ {cur.row}
        /\ \A r \in orderstatus : KeyOf(r) # KeyOf(cur.row) => r \in orderstatus'
        /\ \A u \in localstock :
             (u.ordernum # FREE /\ u.ordernum # cur.row.ordernum) => u \in localstock'
      ]_vars

---------------------------------------------------------------------------
\* the order rows without what allocation writes: the keys, the quantities
\* and what the sync maintains
SyncFields(rows) ==
    {[ordernum |-> r.ordernum, shopifysku |-> r.shopifysku, qty |-> r.qty,
      channel |-> r.channel, shippingname |-> r.shippingname,
      last_seen |-> r.last_seen] : r \in rows}

\* a run of main is between its start and its commit
Running == pc # "idle"

\* C12: throughout a run started with --picks no feed request is made, the
\* live order rows have the keys, shipping fields and last_seen of the last
\* commit, the archive and the sales rows are those of the last commit and
\* every committed stock row is still in the table; in a run without the
\* flag nothing is allocated before the sync has returned.
C12_AllocationOnly ==
    /\ (Running /\ pick_only) =>
        /\ feed = NoFeed
        /\ pc # "sync"
        /\ SyncFields(orderstatus) = SyncFields(committed.orderstatus)
        /\ archive = committed.archive
        /\ sales = committed.sales
        /\ Ids(committed.localstock) \subseteq Ids(localstock)
    /\ (Running /\ ~pick_only) =>
        /\ pc = "sync" => (Tables = committed /\ feed = NoFeed)
        /\ pc # "sync" => feed # NoFeed

\* C12 witness: a run started with --picks is about to commit; it has given
\* a stock row to an order and set the order row's counter
C12_Witness ==
    /\ pick_only
    /\ pc = "scan"
    /\ orders = {}
    /\ \E u \in localstock : u.ordernum # FREE /\ u \notin committed.localstock
    /\ \E r \in orderstatus : r.localstock > 0 /\ r \notin committed.orderstatus

---------------------------------------------------------------------------
\* a live order row that still lacks something: its stock rows and its
\* marketplace and secondary-warehouse quantities do not cover its quantity,
\* or a quantity is left to "othersupplier"
NotFullySatisfied(r) ==
    /\ r.qty > 0
    /\ \/ Held(r) + r.amz + r.ukd < r.qty
       \/ r.othersupplier > 0

\* C13 (as the claim states it): the scan at the top of every allocation
\* run fetches every live order row that is not fully satisfied.
C13_OpenLinesScanned ==
    [][(pc = "alloc" /\ pc' = "scan") =>
        \A r \in orderstatus :
            NotFullySatisfied(r) =>
                [ordernum |-> r.ordernum, shopifysku |-> r.shopifysku, qty |-> r.qty]
                    \in orders'
      ]_vars

---------------------------------------------------------------------------
\* C14 (as the claim states it): a key that has an archive copy is not live,
\* and no key has more than one archive copy.
C14_ArchivalTerminal ==
    \A k \in Keys :
        /\ archive[k] <= 1
        /\ committed.archive[k] >= 1 => ~Exists(orderstatus, k)

---------------------------------------------------------------------------
\* C20 (as the claim states it): the ukd counter of an order row never
\* exceeds the secondary warehouse's stock of the sku; it is 0 when there is
\* none.
C20_UkdWithinStock ==
    \A r \in orderstatus : r.ukd <= ukdstock[r.shopifysku]

---------------------------------------------------------------------------
\* C17 (as the claim states it): whatever the feed request of a run does,
\* the run goes on to allocation.
C17_FeedFailureNotFatal ==
    [][pc = "sync" => pc' = "alloc"]_vars

---------------------------------------------------------------------------
\* the step in which a run is killed
KillStep ==
    /\ pc # "idle"
    /\ pc' = "idle"
    /\ outcome' \in {"killed", "killed in split"}

\* C16: whatever point a run is killed at, the committed stock keeps the
\* total quantity of every sku, has one row per id and keeps every row that
\* has an order as it is; the kill leaves the tables exactly as the killed
\* run found them, and every run starts from the committed tables.
C16_Resumable ==
    [][/\ KillStep => (committed' = committed /\ Tables' = committed)
       /\ \A sku \in Skus :
            TotalQty(committed.localstock', sku) = TotalQty(committed.localstock, sku)
       /\ \A u, v \in committed.localstock' : u.id = v.id => u = v
       /\ \A u \in committed.localstock : u.ordernum # FREE => u \in committed.localstock'
       /\ pc' = "idle" => Tables' = committed'
      ]_vars

\* C16 witness: after a run was killed inside a split the next run has allocated stock rows
\* to a line and is about to commit
C16_Witness ==
    /\ outcome = "killed in split"
    /\ pc = "scan"
    /\ orders = {}
    /\ \E r \in orderstatus : r.localstock > 0 /\ r \notin committed.orderstatus
    /\ \E u \in localstock : u.ordernum # FREE /\ u.qty = 1 /\ u \notin committed.localstock

---------------------------------------------------------------------------
FileNames(files) == {f.name : f \in files}

\* C18: a step that writes the picklist leaves at most MaxFiles files; it
\* removes files only if the directory held MaxFiles files and the step
\* starts a new file; every removed file was created before every file that
\* is kept; the file of the current minute is not removed.
C18_AuditRetention ==
    [][existing_files' # existing_files =>
         LET removed == {f \in existing_files : f.name \notin FileNames(existing_files')}
             started == FileNames(existing_files') \ FileNames(existing_files)
         IN  /\ Cardinality(existing_files') <= MaxFiles
             /\ removed # {} =>
                    (Cardinality(existing_files) >= MaxFiles /\ started # {})
             /\ \A f \in removed : \A g \in existing_files :
                    g.name \in FileNames(existing_files') => f.ctime < g.ctime
             /\ \A f \in removed : f.name # get_picklist_log_filename(current_time)
      ]_vars

\* C19: no two picklist files hold rows of the same run, and every file has
\* exactly one header row.
C19_AuditLogShape ==
    /\ \A f, g \in existing_files : f.runs \cap g.runs # {} => f = g
    /\ \A f \in existing_files : f.header = 1

---------------------------------------------------------------------------
\* the second process has committed, and it read and wrote between the
\* same two runs of the first
Serialized ==
    /\ pc = "idle"
    /\ other.outcome = "commit"
    /\ ~other.overlap

\* C15: when the second process has run between two runs of the first, the
\* total quantity of every sku is what the second process found, and no
\* order line counts more local units than stock rows are assigned to it.
\* (When it has read a free row before the first process committed, both
\* can record that row: C15_Witness.)
C15_SerializedRunsAreSafe ==
    Serialized =>
        /\ \A sku \in Skus : TotalQty(localstock, sku) = other.total[sku]
        /\ \A r \in orderstatus : r.localstock <= Held(r)

\* C15 witness: the second process read a free row of quantity > 1 while
\* the first was running and has written after the first committed: the row
\* is committed for a line of the first process and assigned to another
\* line by the second, both wrote a picklist row, and with the two
\* remainders the stock holds more units than before
C15_Witness ==
    /\ pc = "idle"
    /\ outcome = "commit"
    /\ other.pc = "scan"
    /\ other.writing
    /\ other.overlap
    /\ ~other.started.idle
    /\ other.pick.qty > 1
    /\ other.pick.ordernum = FREE
    /\ \E u \in committed.localstock :
          u.id = other.pick.id /\ u.ordernum \notin {FREE, other.row.ordernum}
    /\ \E u \in localstock :
          u.id = other.pick.id /\ u.ordernum = other.row.ordernum
    /\ Len(picklist) > 0
    /\ Len(other.picklist) > 0
    /\ TotalQty(localstock, other.pick.code) > other.total[other.pick.code]

---------------------------------------------------------------------------
\* the step that deals with an order row for which the candidate query
\* returns nothing
NoStockStep(row) ==
    /\ pc = "scan"
    /\ row \in orders
    /\ row \notin orders'
    /\ row.qty > 0
    /\ AlreadyAllocated(localstock, row.shopifysku, row.ordernum) < row.qty
    /\ AvailablePicks(localstock, row.shopifysku) = {}

\* the sku's supplier is not the secondary warehouse, or it has none
OtherSupplier(sku) == Lower(skusupplier[sku]) # "ukd"

\* C21: when a line has no free local stock, the marketplace holds nothing
\* of its sku and the sku's supplier is not the secondary warehouse (or the
\* sku has no mapping or no supplier), the step writes the whole shortfall
\* to othersupplier, leaves ukd, amz, localstock and orderdate of the line
\* as they were, changes no other line and no stock row, and the scan goes
\* on with the other lines.
C21_OtherSupplierSkipsUkd ==
    [][\A row \in orders :
         (NoStockStep(row) /\ amzfeed[row.shopifysku] = 0 /\ OtherSupplier(row.shopifysku)) =>
            /\ pc' = "scan"
            /\ orders' = orders \ {row}
            /\ localstock' = localstock
            /\ \A r \in orderstatus :
                 IF KeyOf(r) = KeyOf(row)
                 THEN [r EXCEPT !.othersupplier =
                         row.qty - AlreadyAllocated(localstock, row.shopifysku, row.ordernum)]
                        \in orderstatus'
                 ELSE r \in orderstatus'
            /\ Cardinality(orderstatus') = Cardinality(orderstatus)
      ]_vars

\* C21 witness: the scan has just dealt with a line of a sku without
\* marketplace stock whose supplier is not the secondary warehouse: the line
\* has its quantity in othersupplier and nothing in ukd
C21_Witness ==
    /\ pc = "scan"
    /\ consulted.read = <<"localstock", "amzfeed", "skusummary">>
    /\ amzfeed[consulted.row.shopifysku] = 0
    /\ OtherSupplier(consulted.row.shopifysku)
    /\ \E r \in orderstatus :
          /\ KeyOf(r) = KeyOf(consulted.row)
          /\ r.othersupplier = r.qty
          /\ r.othersupplier > 0
          /\ r.ukd = 0

---------------------------------------------------------------------------
\* the step gives the line r (r2 after the step) units of local stock, of
\* the marketplace or of the secondary warehouse
ReceivesAllocation(r, r2) ==
    \/ r2.localstock > r.localstock
    \/ r2.amz > r.amz
    \/ r2.ukd > r.ukd /\ ukdstock[r.shopifysku] > 0

\* C22: a step that gives a line an allocation from local stock, the
\* marketplace or the secondary warehouse sets its orderdate to the time of
\* the run; a step that leaves the counters of a line as they are leaves
\* its orderdate as it is.
C22_FulfillmentTimestamp ==
    [][~WriteFails =>
         \A r \in orderstatus : \A r2 \in orderstatus' :
            KeyOf(r) = KeyOf(r2) =>
               /\ ReceivesAllocation(r, r2) => r2.orderdate = runs
               /\ Counters({r2}) = Counters({r}) => r2.orderdate = r.orderdate
      ]_vars

---------------------------------------------------------------------------
\* C23: a stock row that a step of the local-stock loop takes out of the
\* free pool has afterwards the order of the line as its ordernum, is
\* marked allocated and has quantity 1.
C23_PickedUnitState ==
    [][pc = "loop" =>
         \A u \in localstock : \A u2 \in localstock' :
            (u.id = u2.id /\ u.ordernum = FREE /\ u2.ordernum # FREE) =>
               /\ u2.ordernum = cur.row.ordernum
               /\ u2.allocated # "unallocated"
               /\ u2.qty = 1
      ]_vars

---------------------------------------------------------------------------
\* C24: in a pull that succeeded, a live line whose key the pull reports is
\* after the pull the same line but for shippingname and last_seen, which is
\* the time of the run; it is the only line of its key and no sales row is
\* written for the key.  A sales row is written only for a key that was not
\* live before the pull and is live after it.
C24_RefreshFrame ==
    [][SuccessfulPull =>
         /\ \A r \in orderstatus :
              KeyOf(r) \in feed'.current_shopify_orders =>
                 /\ \E r2 \in orderstatus' :
                       /\ r2 = [r EXCEPT !.shippingname = r2.shippingname,
                                         !.last_seen = runs]
                       /\ \A r3 \in orderstatus' : KeyOf(r3) = KeyOf(r) => r3 = r2
                 /\ sales'[KeyOf(r)] = sales[KeyOf(r)]
         /\ \A k \in Keys :
              sales'[k] # sales[k] =>
                 /\ sales'[k] = sales[k] + 1
                 /\ ~Exists(orderstatus, k)
                 /\ Exists(orderstatus', k)
      ]_vars

\* C24 witness: a line inserted and given local stock by an earlier run has
\* been refreshed by the pull of this run: it carries the time of this run
\* in last_seen, its counter and orderdate of the earlier run, and the one
\* sales row of its insertion
C24_Witness ==
    /\ pc = "alloc"
    /\ feed.status_code = HTTP_OK
    /\ \E r \in orderstatus :
          /\ KeyOf(r) \in feed.current_shopify_orders
          /\ r.last_seen = runs
          /\ r.localstock > 0
          /\ r.orderdate > 0
          /\ r.orderdate < runs
          /\ sales[KeyOf(r)] = 1

---------------------------------------------------------------------------
\* the stock rows the step removes from the table
Removed == {u \in localstock : u.id \notin Ids(localstock')}

\* C25: a pull that succeeded removes stock rows only if it archives a key,
\* and then only rows assigned to an order with the feed's prefix of which
\* no line is live after the pull and a line is in the archive; it adds or
\* changes no stock row.  A step that lowers the total quantity of a sku is
\* such a pull.
C25_CleanupScope ==
    [][/\ SuccessfulPull =>
            /\ Removed # {} => (\E k \in Keys : archive'[k] > archive[k])
            /\ \A u \in Removed :
                  /\ u.ordernum # FREE
                  /\ OrderPrefix(u.ordernum) = "BC"
                  /\ \A r \in orderstatus' : r.ordernum # u.ordernum
                  /\ \E k \in Keys : k[1] = u.ordernum /\ archive'[k] > 0
            /\ localstock' \subseteq localstock
       /\ \A sku \in Skus :
            TotalQty(localstock', sku) < TotalQty(localstock, sku) =>
               (SuccessfulPull /\ \E k \in Keys : archive'[k] > archive[k])
      ]_vars

\* C25 witness: the pull of this run archived a key and removed a stock row
\* of that order, while a free row and a row of an order that is still live
\* are in the table as before
C25_Witness ==
    /\ pc = "alloc"
    /\ feed.status_code = HTTP_OK
    /\ \E k \in Keys : archive[k] > committed.archive[k]
    /\ \E u \in committed.localstock :
          /\ OrderPrefix(u.ordernum) = "BC"
          /\ u.id \notin Ids(localstock)
    /\ \E u \in committed.localstock : u.ordernum = FREE /\ u \in localstock
    /\ \E u \in committed.localstock :
          /\ u.ordernum # FREE
          /\ u \in localstock
          /\ \E r \in orderstatus : r.ordernum = u.ordernum

---------------------------------------------------------------------------
\* C26: after a pull that succeeded, current_shopify_orders holds the key of
\* every eligible line of every open order the shop held, and no such key
\* has been archived by the pull.
C26_CompleteFeedView ==
    (pc # "sync" /\ feed.status_code = HTTP_OK) =>
        /\ feed.open_upstream \subseteq feed.current_shopify_orders
        /\ \A k \in feed.open_upstream : archive[k] = committed.archive[k]

---------------------------------------------------------------------------
\* what the running transaction has added to a counter over the lines of a sku
RECURSIVE Granted(_, _)
Granted(rows, column) ==
    IF rows = {} THEN 0
    ELSE LET r    == CHOOSE x \in rows : TRUE
             was  == {c \in committed.orderstatus : KeyOf(c) = KeyOf(r)}
             base == IF was = {} THEN 0 ELSE (CHOOSE c \in was : TRUE)[column]
         IN  (r[column] - base) + Granted(rows \ {r}, column)

\* C27: the marketplace units one run grants to the lines of a sku are not
\* more than amzfeed holds of the sku, and the secondary-warehouse units it
\* grants to the lines of a sku of which ukdstock holds stock are not more
\* than ukdstock holds.
C27_ExternalStockNotPromisedTwice ==
    \A sku \in Skus :
        LET lines == {r \in orderstatus : r.shopifysku = sku}
        IN  /\ Granted(lines, "amz") <= amzfeed[sku]
            /\ ukdstock[sku] > 0 => Granted(lines, "ukd") <= ukdstock[sku]

---------------------------------------------------------------------------
\* the allocation a picklist row reports is in the tables
InLedger(p, tables) ==
    IF p.location = "AMZ"
    THEN \E r \in tables.orderstatus :
            KeyOf(r) = <<p.ordernum, p.code>> /\ r.amz > 0
    ELSE IF p.location = "UKD"
    THEN \E r \in tables.orderstatus :
            KeyOf(r) = <<p.ordernum, p.code>> /\ r.ukd > 0
    ELSE \E u \in tables.localstock :
            u.code = p.code /\ u.ordernum = p.ordernum /\ u.location = p.location

\* C28: when a run has ended, every row it wrote to the picklist reports an
\* allocation that is in the committed tables.
C28_AuditRowsAreCommitted ==
    pc = "idle" => \A i \in 1..Len(picklist) : InLedger(picklist[i], committed)

---------------------------------------------------------------------------
\* the request of the step returns with a status that is not HTTP_OK
FailedPull ==
    /\ pc = "sync"
    /\ feed'.status_code \notin {0, HTTP_OK}

\* C29: a pull whose request returns a non-success status changes no table
\* (no line inserted, refreshed, archived or deleted, no stock row deleted,
\* no sales row), and the run goes on to the allocation.
C29_FailedPullChangesNothing ==
    [][FailedPull =>
         /\ orderstatus' = orderstatus
         /\ localstock' = localstock
         /\ archive' = archive
         /\ sales' = sales
         /\ pc' = "alloc"
      ]_vars

\* C29 witness: the pull of this run failed and the allocation has run
\* over the ledger: a line of the feed's channel with the stock row it was
\* given by an earlier run is live as it was committed
C29_Witness ==
    /\ pc = "scan"
    /\ orders = {}
    /\ feed.status_code = 500
    /\ archive = committed.archive
    /\ \E r \in orderstatus :
          /\ r.channel = "SHOPIFY"
          /\ r \in committed.orderstatus
          /\ \E u \in localstock : u.ordernum = r.ordernum /\ u \in committed.localstock

---------------------------------------------------------------------------
\* the stock rows assigned to the line that the candidate query would not
\* take for deleted: deleted = 0 or NULL
LiveUnits(r) ==
    {u \in localstock :
        u.code = r.shopifysku /\ u.ordernum = r.ordernum /\ u.deleted \in {0, NoInt}}

\* C30: between two runs, a live line has at most qty stock rows assigned
\* that are not deleted, and a localstock counter that is not 0 is their
\* number.
C30_NoOverAllocation ==
    pc = "idle" =>
        \A r \in orderstatus :
            /\ Cardinality(LiveUnits(r)) <= r.qty
            /\ r.localstock # 0 => r.localstock = Cardinality(LiveUnits(r))

====
